---- MODULE Spec2Model ----
(***************************************************************************)
(* Reliability layers (ACK/NAK, NAK only, ACK with timeout) on top of the  *)
(* virtual socket of reliability_on_top_of_udp/main.js.                    *)
(*                                                                         *)
(* JavaScript strings are sequences of code points, Buffers are sequences  *)
(* of bytes (0..255).  The integers of the bit operations are signed       *)
(* 32-bit integers, as in JavaScript.                                      *)
(***************************************************************************)
EXTENDS Integers, Sequences, FiniteSets, TLC

\* ------------------------------------------------------------------------
\* Bit operations of JavaScript on signed 32-bit integers (two's complement:
\* x % 2 is the lowest bit and x \div 2 the arithmetic shift right, for
\* negative x too)
\* ------------------------------------------------------------------------

RECURSIVE BitXor(_, _)
\* a ^ b
BitXor(a, b) ==
    IF a = 0 THEN b
    ELSE IF b = 0 THEN a
    ELSE IF a = -1 THEN -b - 1
    ELSE IF b = -1 THEN -a - 1
    ELSE (((a % 2) + (b % 2)) % 2) + 2 * BitXor(a \div 2, b \div 2)

RECURSIVE BitAnd(_, _)
\* a & b
BitAnd(a, b) ==
    IF a = 0 \/ b = 0 THEN 0
    ELSE IF a = -1 THEN b
    ELSE IF b = -1 THEN a
    ELSE ((a % 2) * (b % 2)) + 2 * BitAnd(a \div 2, b \div 2)

\* x << 1 on a signed 32-bit integer: bit 31 is lost, bit 30 becomes the sign
ShiftLeft1(x) ==
    LET low30 == x % 1073741824
        bit30 == (x \div 1073741824) % 2
    IN  IF bit30 = 1 THEN (2 * low30 - 2147483647) - 1 ELSE 2 * low30

\* 1 << bitIndex, bitIndex in 0..7
OneShl(bitIndex) == 2 ^ bitIndex

\* ------------------------------------------------------------------------
\* Buffer.from(str, "utf8") and buffer.toString("utf8")
\* ------------------------------------------------------------------------

ReplacementChar == 65533

\* the UTF-8 bytes of one code point
Utf8Bytes(cp) ==
    IF cp < 128 THEN <<cp>>
    ELSE IF cp < 2048 THEN <<192 + (cp \div 64), 128 + (cp % 64)>>
    ELSE IF cp < 65536 THEN
        <<224 + (cp \div 4096), 128 + ((cp \div 64) % 64), 128 + (cp % 64)>>
    ELSE <<240 + (cp \div 262144), 128 + ((cp \div 4096) % 64),
           128 + ((cp \div 64) % 64), 128 + (cp % 64)>>

RECURSIVE Utf8Encode(_)
\* Buffer.from(str, "utf8")
Utf8Encode(str) ==
    IF str = <<>> THEN <<>>
    ELSE Utf8Bytes(Head(str)) \o Utf8Encode(Tail(str))

IsCont(b, j) == j <= Len(b) /\ b[j] >= 128 /\ b[j] <= 191

\* the second byte of a 3- or 4-byte sequence led by c is in the range the
\* encoding allows
SecondOk(b, j, c) ==
    /\ j <= Len(b)
    /\ b[j] >= (IF c = 224 THEN 160 ELSE IF c = 240 THEN 144 ELSE 128)
    /\ b[j] <= (IF c = 237 THEN 159 ELSE IF c = 244 THEN 143 ELSE 191)

RECURSIVE Utf8DecodeFrom(_, _)
\* buffer.toString("utf8") from byte i on: an ill-formed sequence becomes one
\* U+FFFD per maximal ill-formed prefix
Utf8DecodeFrom(b, i) ==
    IF i > Len(b) THEN <<>>
    ELSE LET c == b[i] IN
        IF c < 128 THEN <<c>> \o Utf8DecodeFrom(b, i + 1)
        ELSE IF c >= 194 /\ c <= 223 THEN
            IF IsCont(b, i + 1)
            THEN <<(c - 192) * 64 + (b[i + 1] - 128)>> \o Utf8DecodeFrom(b, i + 2)
            ELSE <<ReplacementChar>> \o Utf8DecodeFrom(b, i + 1)
        ELSE IF c >= 224 /\ c <= 239 THEN
            IF ~SecondOk(b, i + 1, c)
            THEN <<ReplacementChar>> \o Utf8DecodeFrom(b, i + 1)
            ELSE IF ~IsCont(b, i + 2)
            THEN <<ReplacementChar>> \o Utf8DecodeFrom(b, i + 2)
            ELSE <<(c - 224) * 4096 + (b[i + 1] - 128) * 64 + (b[i + 2] - 128)>>
                 \o Utf8DecodeFrom(b, i + 3)
        ELSE IF c >= 240 /\ c <= 244 THEN
            IF ~SecondOk(b, i + 1, c)
            THEN <<ReplacementChar>> \o Utf8DecodeFrom(b, i + 1)
            ELSE IF ~IsCont(b, i + 2)
            THEN <<ReplacementChar>> \o Utf8DecodeFrom(b, i + 2)
            ELSE IF ~IsCont(b, i + 3)
            THEN <<ReplacementChar>> \o Utf8DecodeFrom(b, i + 3)
            ELSE <<(c - 240) * 262144 + (b[i + 1] - 128) * 4096
                   + (b[i + 2] - 128) * 64 + (b[i + 3] - 128)>>
                 \o Utf8DecodeFrom(b, i + 4)
        ELSE <<ReplacementChar>> \o Utf8DecodeFrom(b, i + 1)

\* buffer.toString("utf8")
Utf8Decode(b) == Utf8DecodeFrom(b, 1)

\* ------------------------------------------------------------------------
\* CRC-8
\* ------------------------------------------------------------------------

polynomial == 7

RECURSIVE CrcShift_LowBit(_, _)
\* an inner loop that tests the lowest bit of the accumulator (crc & 0x01)
\* where the code tests bit 7
CrcShift_LowBit(crc, i) ==
    IF i >= 8 THEN crc
    ELSE IF BitAnd(crc, 1) # 0
         THEN CrcShift_LowBit(BitXor(ShiftLeft1(crc), polynomial), i + 1)
         ELSE CrcShift_LowBit(ShiftLeft1(crc), i + 1)

RECURSIVE CrcShift(_, _)
\* the inner loop: i runs from 0 to 7, the accumulator is not masked
CrcShift(crc, i) ==
    IF i >= 8 THEN crc
    ELSE IF BitAnd(crc, 128) # 0
         THEN CrcShift(BitXor(ShiftLeft1(crc), polynomial), i + 1)
         ELSE CrcShift(ShiftLeft1(crc), i + 1)

RECURSIVE CrcBytes_Assign(_, _)
\* an outer loop that assigns the byte to the accumulator (crc = byte) where
\* the code XORs it in (crc ^= byte)
CrcBytes_Assign(crc, bytes) ==
    IF bytes = <<>> THEN crc
    ELSE CrcBytes_Assign(CrcShift(Head(bytes), 0), Tail(bytes))

RECURSIVE CrcBytes(_, _)
\* the outer loop over the bytes of the buffer
CrcBytes(crc, bytes) ==
    IF bytes = <<>> THEN crc
    ELSE CrcBytes(CrcShift(BitXor(crc, Head(bytes)), 0), Tail(bytes))

\* a generateCRC8 that returns the accumulator without the mask crc & 0xFF
generateCRC8_NoMask(str) == CrcBytes(0, Utf8Encode(str))

\* generateCRC8(data) for a string data, here str
generateCRC8(str) == BitAnd(CrcBytes(0, Utf8Encode(str)), 255)

\* generateCRC8(data) for a Buffer data: Buffer.from copies its bytes
generateCRC8OfBuffer(bytes) == BitAnd(CrcBytes(0, bytes), 255)

\* verifyCRC8(data, crc) for a string data and a number crc
verifyCRC8(str, crc) == generateCRC8(str) = crc

\* ------------------------------------------------------------------------
\* JSON.stringify({ data, crc })
\* ------------------------------------------------------------------------

HexDigit(n) == IF n < 10 THEN 48 + n ELSE 87 + n

\* one character of a string inside the quotes of JSON.stringify
QuoteChar(c) ==
    IF c = 34 THEN <<92, 34>>
    ELSE IF c = 92 THEN <<92, 92>>
    ELSE IF c = 8 THEN <<92, 98>>
    ELSE IF c = 9 THEN <<92, 116>>
    ELSE IF c = 10 THEN <<92, 110>>
    ELSE IF c = 12 THEN <<92, 102>>
    ELSE IF c = 13 THEN <<92, 114>>
    ELSE IF c < 32 THEN <<92, 117, 48, 48, HexDigit(c \div 16), HexDigit(c % 16)>>
    ELSE <<c>>

RECURSIVE QuoteChars(_)
QuoteChars(str) ==
    IF str = <<>> THEN <<>> ELSE QuoteChar(Head(str)) \o QuoteChars(Tail(str))

\* JSON.stringify of a string
StringifyString(str) == <<34>> \o QuoteChars(str) \o <<34>>

RECURSIVE StringifyNat(_)
\* JSON.stringify of an integer n >= 0: its decimal digits
StringifyNat(n) ==
    IF n < 10 THEN <<48 + n>> ELSE StringifyNat(n \div 10) \o <<48 + (n % 10)>>

\* JSON.stringify({ data, crc }):  {"data":<data>,"crc":<crc>}
Stringify(str, crc) ==
    <<123, 34, 100, 97, 116, 97, 34, 58>> \o StringifyString(str)
    \o <<44, 34, 99, 114, 99, 34, 58>> \o StringifyNat(crc) \o <<125>>

\* the packet a layer's send builds from its data
MakePacket(str) == Stringify(str, generateCRC8(str))

\* ------------------------------------------------------------------------
\* The virtual socket's corruption
\* ------------------------------------------------------------------------

\* introduceBitError(data) with the two random indices it draws
introduceBitError(str, byteIndex, bitIndex) ==
    LET buffer == Utf8Encode(str)
        flipped == [k \in 1..Len(buffer) |->
                      IF k = byteIndex + 1
                      THEN BitXor(buffer[k], OneShl(bitIndex))
                      ELSE buffer[k]]
    IN  Utf8Decode(flipped)

\* ------------------------------------------------------------------------
\* JSON.parse
\*
\* A JavaScript value is [t, s, m, e]: t its type ("string", "number", "true",
\* "false", "null", "array", "object", "undefined"), s the code points of a
\* string, and m, e the value m * 10^e of a number (m not a multiple of 10,
\* or m = 0 and e = 0).  A number literal of more than MaxDigits digits or
\* with an exponent of more than two digits is outside what the model
\* computes: its type is "unmodelled".
\* ------------------------------------------------------------------------

MaxDigits == 9

JsVal(t, s, m, e) == [t |-> t, s |-> s, m |-> m, e |-> e]

Undefined == JsVal("undefined", <<>>, 0, 0)

\* the result of a failed parse step: JSON.parse throws SyntaxError
NoParse == [ok |-> FALSE, i |-> 0, v |-> Undefined, data |-> Undefined, crc |-> Undefined]

Parsed(i, v) == [ok |-> TRUE, i |-> i, v |-> v, data |-> Undefined, crc |-> Undefined]

RECURSIVE SkipWs(_, _)
\* the index of the first character from i on that is no JSON white space
SkipWs(t, i) ==
    IF i <= Len(t) /\ t[i] \in {32, 9, 10, 13} THEN SkipWs(t, i + 1) ELSE i

IsDigit(c) == c >= 48 /\ c <= 57

HexVal(c) ==
    IF c >= 48 /\ c <= 57 THEN c - 48
    ELSE IF c >= 97 /\ c <= 102 THEN c - 87
    ELSE IF c >= 65 /\ c <= 70 THEN c - 55
    ELSE -1

\* what stands for the escape \d, or -1
EscapeChar(d) ==
    IF d \in {34, 92, 47} THEN d
    ELSE IF d = 98 THEN 8
    ELSE IF d = 102 THEN 12
    ELSE IF d = 110 THEN 10
    ELSE IF d = 114 THEN 13
    ELSE IF d = 116 THEN 9
    ELSE -1

RECURSIVE ParseStringFrom(_, _, _)
\* the rest of a string literal, the opening quote read and acc collected
ParseStringFrom(t, i, acc) ==
    IF i > Len(t) THEN NoParse
    ELSE IF t[i] = 34 THEN Parsed(i + 1, JsVal("string", acc, 0, 0))
    ELSE IF t[i] < 32 THEN NoParse
    ELSE IF t[i] # 92 THEN ParseStringFrom(t, i + 1, Append(acc, t[i]))
    ELSE IF i + 1 > Len(t) THEN NoParse
    ELSE IF EscapeChar(t[i + 1]) >= 0
         THEN ParseStringFrom(t, i + 2, Append(acc, EscapeChar(t[i + 1])))
    ELSE IF /\ t[i + 1] = 117
            /\ i + 5 <= Len(t)
            /\ \A k \in 2..5 : HexVal(t[i + k]) >= 0
         THEN ParseStringFrom(t, i + 6,
                  Append(acc, HexVal(t[i + 2]) * 4096 + HexVal(t[i + 3]) * 256
                              + HexVal(t[i + 4]) * 16 + HexVal(t[i + 5])))
    ELSE NoParse

RECURSIVE ScanDigits(_, _)
\* the index after the digits that start at i
ScanDigits(t, i) ==
    IF i <= Len(t) /\ IsDigit(t[i]) THEN ScanDigits(t, i + 1) ELSE i

RECURSIVE DigitsValue(_)
\* the number a sequence of digits denotes
DigitsValue(ds) ==
    IF ds = <<>> THEN 0
    ELSE 10 * DigitsValue(SubSeq(ds, 1, Len(ds) - 1)) + (ds[Len(ds)] - 48)

RECURSIVE Normalize(_, _)
\* m * 10^e with the trailing zeros of m moved into e
Normalize(m, e) ==
    IF m = 0 THEN <<0, 0>>
    ELSE IF m % 10 = 0 THEN Normalize(m \div 10, e + 1)
    ELSE <<m, e>>

\* a number literal at i:  -? (0 | [1-9][0-9]*) (. [0-9]+)? ([eE] [+-]? [0-9]+)?
ParseNumber(t, i) ==
    LET neg == i <= Len(t) /\ t[i] = 45
        i1 == IF neg THEN i + 1 ELSE i
    IN  IF ~(i1 <= Len(t) /\ IsDigit(t[i1])) THEN NoParse
        ELSE
        LET intEnd == IF t[i1] = 48 THEN i1 + 1 ELSE ScanDigits(t, i1)
            hasFrac == intEnd <= Len(t) /\ t[intEnd] = 46
            fracEnd == IF hasFrac THEN ScanDigits(t, intEnd + 1) ELSE intEnd
            hasExp == fracEnd <= Len(t) /\ t[fracEnd] \in {101, 69}
            hasSign == hasExp /\ fracEnd + 1 <= Len(t) /\ t[fracEnd + 1] \in {43, 45}
            expStart == IF hasSign THEN fracEnd + 2 ELSE fracEnd + 1
            expEnd == IF hasExp THEN ScanDigits(t, expStart) ELSE fracEnd
            intDigits == SubSeq(t, i1, intEnd - 1)
            fracDigits == IF hasFrac THEN SubSeq(t, intEnd + 1, fracEnd - 1) ELSE <<>>
            expDigits == IF hasExp THEN SubSeq(t, expStart, expEnd - 1) ELSE <<>>
        IN  IF hasFrac /\ fracDigits = <<>> THEN NoParse
            ELSE IF hasExp /\ expDigits = <<>> THEN NoParse
            ELSE IF Len(intDigits) + Len(fracDigits) > MaxDigits \/ Len(expDigits) > 2
                 THEN Parsed(expEnd, JsVal("unmodelled", <<>>, 0, 0))
            ELSE
            LET exp == IF hasSign /\ t[fracEnd + 1] = 45
                       THEN -DigitsValue(expDigits) ELSE DigitsValue(expDigits)
                n == Normalize(DigitsValue(intDigits \o fracDigits),
                               exp - Len(fracDigits))
            IN  Parsed(expEnd, JsVal("number", <<>>, IF neg THEN -n[1] ELSE n[1], n[2]))

\* the literal word (true, false, null) at i
ParseWord(t, i, word, type) ==
    IF i + Len(word) - 1 <= Len(t) /\ SubSeq(t, i, i + Len(word) - 1) = word
    THEN Parsed(i + Len(word), JsVal(type, <<>>, 0, 0))
    ELSE NoParse

RECURSIVE ParseValue(_, _)
RECURSIVE ParseElements(_, _)
RECURSIVE ParseMembers(_, _, _, _)

\* a JSON value at i (white space before it already skipped)
ParseValue(t, i) ==
    IF i > Len(t) THEN NoParse
    ELSE IF t[i] = 34 THEN ParseStringFrom(t, i + 1, <<>>)
    ELSE IF t[i] = 45 \/ IsDigit(t[i]) THEN ParseNumber(t, i)
    ELSE IF t[i] = 116 THEN ParseWord(t, i, <<116, 114, 117, 101>>, "true")
    ELSE IF t[i] = 102 THEN ParseWord(t, i, <<102, 97, 108, 115, 101>>, "false")
    ELSE IF t[i] = 110 THEN ParseWord(t, i, <<110, 117, 108, 108>>, "null")
    ELSE IF t[i] = 91 THEN
        LET j == SkipWs(t, i + 1) IN
        IF j <= Len(t) /\ t[j] = 93
        THEN Parsed(j + 1, JsVal("array", <<>>, 0, 0))
        ELSE ParseElements(t, j)
    ELSE IF t[i] = 123 THEN
        LET j == SkipWs(t, i + 1) IN
        IF j <= Len(t) /\ t[j] = 125
        THEN Parsed(j + 1, JsVal("object", <<>>, 0, 0))
        ELSE ParseMembers(t, j, Undefined, Undefined)
    ELSE NoParse

\* the elements of an array from i on, up to and with its ]
ParseElements(t, i) ==
    LET el == ParseValue(t, i) IN
    IF ~el.ok THEN NoParse
    ELSE LET j == SkipWs(t, el.i) IN
        IF j > Len(t) THEN NoParse
        ELSE IF t[j] = 93 THEN Parsed(j + 1, JsVal("array", <<>>, 0, 0))
        ELSE IF t[j] = 44 THEN ParseElements(t, SkipWs(t, j + 1))
        ELSE NoParse

\* the members of an object from i on, up to and with its }; dataVal and crcVal
\* are the values of the members of these names read so far (a later member
\* of the same name replaces an earlier one)
ParseMembers(t, i, dataVal, crcVal) ==
    IF ~(i <= Len(t) /\ t[i] = 34) THEN NoParse
    ELSE LET key == ParseStringFrom(t, i + 1, <<>>) IN
    IF ~key.ok THEN NoParse
    ELSE LET c == SkipWs(t, key.i) IN
    IF ~(c <= Len(t) /\ t[c] = 58) THEN NoParse
    ELSE LET val == ParseValue(t, SkipWs(t, c + 1)) IN
    IF ~val.ok THEN NoParse
    ELSE LET j == SkipWs(t, val.i)
             data2 == IF key.v.s = <<100, 97, 116, 97>> THEN val.v ELSE dataVal
             crc2 == IF key.v.s = <<99, 114, 99>> THEN val.v ELSE crcVal
         IN
        IF j > Len(t) THEN NoParse
        ELSE IF t[j] = 125
             THEN [ok |-> TRUE, i |-> j + 1, v |-> JsVal("object", <<>>, 0, 0),
                   data |-> data2, crc |-> crc2]
        ELSE IF t[j] = 44 THEN ParseMembers(t, SkipWs(t, j + 1), data2, crc2)
        ELSE NoParse

\* r, the value parsed from the start of text, if only white space follows it
WholeText(text, r) ==
    IF r.ok /\ SkipWs(text, r.i) > Len(text) THEN r ELSE NoParse

\* JSON.parse(text): ok is FALSE when it throws SyntaxError; data and crc are
\* the properties of these names of the value (undefined when it has none)
JsonParse(text) == WholeText(text, ParseValue(text, SkipWs(text, 1)))

\* ------------------------------------------------------------------------
\* receive of the three layers
\* ------------------------------------------------------------------------

\* generateCRC8(data) === crc for the parsed values data (a string) and crc
VerifyParsed(dataVal, crcVal) ==
    /\ crcVal.t = "number"
    /\ crcVal.m >= 0 /\ crcVal.m <= 255 /\ crcVal.e >= 0 /\ crcVal.e <= 2
    /\ generateCRC8(dataVal.s) = crcVal.m * (10 ^ crcVal.e)

\* const { data, crc } = p; verifyCRC8(data, crc) for the parse result p:
\* "match", "mismatch", or the exception thrown (JSON.parse threw
\* SyntaxError; destructuring null and Buffer.from of a value that is no
\* string throw TypeError)
CheckParsed(p) ==
    IF ~p.ok THEN "SyntaxError"
    ELSE IF p.v.t = "null" THEN "TypeError"
    ELSE IF p.data.t \in {"array", "object"} THEN "Unmodelled"
    ELSE IF p.data.t # "string" THEN "TypeError"
    ELSE IF p.crc.t = "unmodelled" THEN "Unmodelled"
    ELSE IF VerifyParsed(p.data, p.crc) THEN "match" ELSE "mismatch"

\* what receive(packet) does up to the test of verifyCRC8
Checked(text) == CheckParsed(JsonParse(text))

\* the branches of receive of createReliabilityLayerWithACKNAK
receiveACKNAK(c) ==
    IF c = "match" THEN "ACK" ELSE IF c = "mismatch" THEN "NAK" ELSE c

\* the branches of receive of createReliabilityLayerWithNAK; "null" is null
receiveNAK(c) ==
    IF c = "match" THEN "null" ELSE IF c = "mismatch" THEN "NAK" ELSE c

\* a receive of the ACK layer that answers NAK to a wrong checksum, as the
\* ACK/NAK layer does
receiveACK_AnswersNak(c) ==
    IF c = "match" THEN "ACK" ELSE IF c = "mismatch" THEN "NAK" ELSE c

\* the branches of receive of createReliabilityLayerWithACK; "null" is null
receiveACK(c) ==
    IF c = "match" THEN "ACK" ELSE IF c = "mismatch" THEN "null" ELSE c

\* the branches of receive of the layer built by factory v
receiveOf(v, c) ==
    IF v = "ACKNAK" THEN receiveACKNAK(c)
    ELSE IF v = "NAK" THEN receiveNAK(c)
    ELSE receiveACK(c)

\* ------------------------------------------------------------------------
\* The program: one reliability layer on one virtual socket
\*
\* JavaScript runs one task at a time to completion: task is the list of the
\* calls the running task still has to make (empty between tasks), and the
\* timers (setTimeout) fire only between tasks.  timeoutMs and maxDelayMs are
\* arbitrary, so a delayed delivery and a retransmission timer fire in any
\* order.
\* ------------------------------------------------------------------------

\* the transmissions one send may make in the model (the code has no limit)
MaxAttempts == 3

\* the send calls the producer makes on the layer: one (every call of send
\* has its own packet, handlers and flags)
Sends == {1}

Variants == {"ACKNAK", "NAK", "ACK"}

\* the payloads the producer sends: "A" and "Hi"
Payloads == {<<65>>, <<72, 105>>}

\* probabilities in percent and the values, in percent, Math.random() is drawn
\* from: with probability 0 a trial never succeeds, with 50 it may or may not
\* at every draw (a probability of 1 gives the runs of these in which it
\* always succeeds)
Probs == {0, 50}
Rand == {0, 50}

Str(s) == JsVal("string", s, 0, 0)
ACK == Str(<<65, 67, 75>>)
NAK == Str(<<78, 65, 75>>)
Null == JsVal("null", <<>>, 0, 0)

VARIABLES
    variant,            \* the factory that built the layer
    virtualSocket,      \* the socket given to the factory: the one built by
                        \*   createVirtualSocket, or "any" object with a send
    dropProbability,    \* the arguments of createVirtualSocket
    delayProbability,
    errorProbability,
    data,               \* data[s]: the payload of send s (<<>> before the call)
    packet,             \* packet[s]: the packet send s built
    cbCount,            \* cbCount[s]: how many times send s called callback()
    tx,                 \* tx[s][k]: the k-th virtualSocket.send of send s:
                        \*   outcome "called", "dropped", "delayed", "direct";
                        \*   delivered: calls of its callback; corrupted
    ackReceived,        \* ackReceived[s][a]: the flag of attempt a (ACK layer)
    timers,             \* pending retransmission timers <<s, a>> (ACK layer)
    inflight,           \* pending delayed deliveries <<s, k>>
    task,               \* the calls the running task still has to make
    rcv,                \* the argument of a call of the layer's receive
    rcvResult,          \* what that call returned or threw ("pending" before)
    crcData,            \* the argument of a call of generateCRC8
    crcResult           \* <<c>> when that call has returned c, <<>> before

vars == <<variant, virtualSocket, dropProbability, delayProbability, errorProbability, data,
          packet, cbCount, tx, ackReceived, timers, inflight, task, rcv, rcvResult,
          crcData, crcResult>>

\* the state of the consumer's call of receive and of a call of generateCRC8
recv == <<rcv, rcvResult, crcData, crcResult>>

config == <<variant, virtualSocket, dropProbability, delayProbability, errorProbability>>

Frame(op, s, a, env, resp) == [op |-> op, s |-> s, a |-> a, env |-> env, resp |-> resp]

\* virtualSocket.send(packet, handleResponse) for transmission a of send s
SocketSendFrame(s, a) == Frame("socketSend", s, a, <<>>, Undefined)

\* setTimeout(..., timeoutMs) of attempt a of send s
SetTimeoutFrame(s, a) == Frame("setTimeout", s, a, <<>>, Undefined)

\* a socket that answers ACK to whatever it delivers
CallbackArguments_Ack(env) == {ACK}

\* the values a socket's send passes to the callback for the envelope it
\* delivers: createVirtualSocket passes the envelope itself,
\* callback(maybeCorruptData(data)); a layer built on any other socket is
\* called with what that socket chooses, here an acknowledgment (ACK, NAK,
\* null) or the envelope
CallbackArguments(env) ==
    IF virtualSocket = "createVirtualSocket"
    THEN {Str(env)}
    ELSE {ACK, NAK, Null, Str(env)}

\* handleResponse(response) with the envelope env delivered
HandleFrame(s, a, env, response) == Frame("handle", s, a, env, response)

Started(s) == tx[s] # <<>>
TxCount(s) == Len(tx[s])

\* no call of receive
NoReceive == [kind |-> "none", data |-> <<>>, crc |-> 0, packet |-> <<>>]

\* the layer and its socket just built, nothing sent
Idle ==
    /\ data = [s \in Sends |-> <<>>]
    /\ packet = [s \in Sends |-> <<>>]
    /\ cbCount = [s \in Sends |-> 0]
    /\ tx = [s \in Sends |-> <<>>]
    /\ ackReceived = [s \in Sends |-> <<>>]
    /\ timers = {}
    /\ inflight = {}
    /\ task = <<>>

Init ==
    /\ variant \in Variants
    /\ virtualSocket = "createVirtualSocket"
    /\ dropProbability \in Probs
    /\ delayProbability \in Probs
    /\ errorProbability \in Probs
    /\ Idle
    /\ rcv = NoReceive
    /\ rcvResult = "none"
    /\ crcData = <<>>
    /\ crcResult = <<>>

NewTx == [outcome |-> "called", delivered |-> 0, corrupted |-> FALSE]

\* sendWithTimeout(): let ackReceived = false; virtualSocket.send; setTimeout
SendWithTimeoutFrames(s, a) == <<SocketSendFrame(s, a), SetTimeoutFrame(s, a)>>

\* the calls send makes after it has built the packet
FirstFrames(s) ==
    IF variant = "ACK" THEN SendWithTimeoutFrames(s, 1) ELSE <<SocketSendFrame(s, 1)>>

\* layer.send(d, callback): the producer's call, up to the socket's send
Send(s, d) ==
    /\ task = <<>>
    /\ ~Started(s)
    /\ data' = [data EXCEPT ![s] = d]
    /\ packet' = [packet EXCEPT ![s] = MakePacket(d)]
    /\ tx' = [tx EXCEPT ![s] = <<NewTx>>]
    /\ ackReceived' = [ackReceived EXCEPT ![s] = IF variant = "ACK" THEN <<FALSE>> ELSE <<>>]
    /\ task' = FirstFrames(s)
    /\ UNCHANGED <<config, cbCount, timers, inflight, recv>>

\* the byte indices introduceBitError can draw for the packet p
ByteIndices(p) == 0..(Len(Utf8Encode(p)) - 1)

\* all values introduceBitError(p) can return
BitErrors(p) ==
    {introduceBitError(p, byteIndex, bitIndex) :
        byteIndex \in ByteIndices(p), bitIndex \in 0..7}

\* the packets the layer builds, and for each the values introduceBitError
\* can return for it
Packets == {MakePacket(d) : d \in Payloads}
CorruptedPackets == [p \in Packets |-> BitErrors(p)]

\* the values maybeCorruptData(p) can return: Math.random() < errorProbability
\* ? introduceBitError(p) : p, as <<corrupted, value>>
maybeCorruptData(p) ==
    {<<TRUE, c>> : c \in IF \E r \in Rand : r < errorProbability
                         THEN CorruptedPackets[p] ELSE {}}
    \cup {<<FALSE, p>> : r \in {r \in Rand : ~(r < errorProbability)}}

\* the socket calls the callback of transmission k of send s:
\* callback(maybeCorruptData(data)); outcome is what the socket's send did
Deliver(s, k, outcome) ==
    \E c \in maybeCorruptData(packet[s]) : \E response \in CallbackArguments(c[2]) :
        /\ tx' = [tx EXCEPT ![s][k] = [outcome |-> outcome,
                                       delivered |-> @.delivered + 1,
                                       corrupted |-> c[1]]]
        /\ task' = <<HandleFrame(s, k, c[2], response)>>
                   \o (IF task = <<>> THEN <<>> ELSE Tail(task))

\* virtualSocket.send(data, callback): drop, delay or deliver at once
SocketSend ==
    /\ task # <<>>
    /\ Head(task).op = "socketSend"
    /\ LET s == Head(task).s
           k == Head(task).a
       IN \E r1 \in Rand :
            IF r1 < dropProbability
            THEN /\ tx' = [tx EXCEPT ![s][k].outcome = "dropped"]
                 /\ task' = Tail(task)
                 /\ UNCHANGED inflight
            ELSE \E r2 \in Rand :
                IF r2 < delayProbability
                THEN /\ tx' = [tx EXCEPT ![s][k].outcome = "delayed"]
                     /\ inflight' = inflight \cup {<<s, k>>}
                     /\ task' = Tail(task)
                ELSE /\ Deliver(s, k, "direct")
                     /\ UNCHANGED inflight
    /\ UNCHANGED <<config, data, packet, cbCount, ackReceived, timers, recv>>

\* a delay timer that stays set after it has fired (setInterval for
\* setTimeout): the callback is called at every firing
DeliverDelayed_Interval(s, k) ==
    /\ task = <<>>
    /\ <<s, k>> \in inflight
    /\ inflight' = inflight
    /\ Deliver(s, k, "delayed")
    /\ UNCHANGED <<config, data, packet, cbCount, ackReceived, timers, recv>>

\* the timer of a delayed packet fires: () => callback(maybeCorruptData(data))
DeliverDelayed(s, k) ==
    /\ task = <<>>
    /\ <<s, k>> \in inflight
    /\ inflight' = inflight \ {<<s, k>>}
    /\ Deliver(s, k, "delayed")
    /\ UNCHANGED <<config, data, packet, cbCount, ackReceived, timers, recv>>

\* what handleResponse(response) of each layer does: "complete" (callback()),
\* "retransmit" (virtualSocket.send(packet, handleResponse)) or "none"
handleResponseACKNAK(response) ==
    IF response = ACK THEN "complete"
    ELSE IF response = NAK THEN "retransmit"
    ELSE "none"

\* a handler of the NAK layer that completes on ACK only, as the ACK/NAK
\* layer does
handleResponseNAK_NeedsAck(response) ==
    IF response = NAK THEN "retransmit"
    ELSE IF response = ACK THEN "complete"
    ELSE "none"

handleResponseNAK(response) ==
    IF response = NAK THEN "retransmit" ELSE "complete"

handleResponseACK(response) ==
    IF response = ACK THEN "complete" ELSE "none"

handleResponse(response) ==
    IF variant = "ACKNAK" THEN handleResponseACKNAK(response)
    ELSE IF variant = "NAK" THEN handleResponseNAK(response)
    ELSE handleResponseACK(response)

\* a handler of a layer that keeps the callbacks of its sends in one list and
\* calls them all on completion
Handle_AllCallbacks ==
    /\ task # <<>>
    /\ Head(task).op = "handle"
    /\ LET s == Head(task).s
           a == Head(task).a
           effect == handleResponse(Head(task).resp)
       IN /\ effect = "retransmit" => TxCount(s) < MaxAttempts
          /\ cbCount' = [r \in DOMAIN cbCount |->
                  IF effect = "complete" /\ Started(r)
                  THEN cbCount[r] + 1 ELSE cbCount[r]]
          /\ ackReceived' = [ackReceived EXCEPT ![s] =
                  IF variant = "ACK" /\ effect = "complete"
                  THEN [@ EXCEPT ![a] = TRUE] ELSE @]
          /\ tx' = [tx EXCEPT ![s] = IF effect = "retransmit" THEN Append(@, NewTx) ELSE @]
          /\ task' = IF effect = "retransmit"
                     THEN <<SocketSendFrame(s, TxCount(s) + 1)>> \o Tail(task)
                     ELSE Tail(task)
    /\ UNCHANGED <<config, data, packet, timers, inflight, recv>>

\* a handler that calls callback() after its branches, not inside the
\* completing one: it calls it when it retransmits too
Handle_CallbackAfterBranches ==
    /\ task # <<>>
    /\ Head(task).op = "handle"
    /\ LET s == Head(task).s
           a == Head(task).a
           effect == handleResponse(Head(task).resp)
       IN /\ effect = "retransmit" => TxCount(s) < MaxAttempts
          /\ cbCount' = [cbCount EXCEPT ![s] = IF effect # "none" THEN @ + 1 ELSE @]
          /\ ackReceived' = [ackReceived EXCEPT ![s] =
                  IF variant = "ACK" /\ effect = "complete"
                  THEN [@ EXCEPT ![a] = TRUE] ELSE @]
          /\ tx' = [tx EXCEPT ![s] = IF effect = "retransmit" THEN Append(@, NewTx) ELSE @]
          /\ task' = IF effect = "retransmit"
                     THEN <<SocketSendFrame(s, TxCount(s) + 1)>> \o Tail(task)
                     ELSE Tail(task)
    /\ UNCHANGED <<config, data, packet, timers, inflight, recv>>

\* the running task calls handleResponse(response)
Handle ==
    /\ task # <<>>
    /\ Head(task).op = "handle"
    /\ LET s == Head(task).s
           a == Head(task).a
           effect == handleResponse(Head(task).resp)
       IN /\ effect = "retransmit" => TxCount(s) < MaxAttempts
          /\ cbCount' = [cbCount EXCEPT ![s] = IF effect = "complete" THEN @ + 1 ELSE @]
          /\ ackReceived' = [ackReceived EXCEPT ![s] =
                  IF variant = "ACK" /\ effect = "complete"
                  THEN [@ EXCEPT ![a] = TRUE] ELSE @]
          /\ tx' = [tx EXCEPT ![s] = IF effect = "retransmit" THEN Append(@, NewTx) ELSE @]
          /\ task' = IF effect = "retransmit"
                     THEN <<SocketSendFrame(s, TxCount(s) + 1)>> \o Tail(task)
                     ELSE Tail(task)
    /\ UNCHANGED <<config, data, packet, timers, inflight, recv>>

\* sendWithTimeout arms the timer of its attempt: setTimeout(..., timeoutMs)
SetTimeout ==
    /\ task # <<>>
    /\ Head(task).op = "setTimeout"
    /\ timers' = timers \cup {<<Head(task).s, Head(task).a>>}
    /\ task' = Tail(task)
    /\ UNCHANGED <<config, data, packet, cbCount, tx, ackReceived, inflight, recv>>

\* a retransmission timer that stays set after it has fired (setInterval for
\* setTimeout)
TimeoutFire_Interval(s, a) ==
    /\ task = <<>>
    /\ <<s, a>> \in timers
    /\ ~ackReceived[s][a]
    /\ TxCount(s) < MaxAttempts
    /\ timers' = timers
    /\ tx' = [tx EXCEPT ![s] = Append(@, NewTx)]
    /\ ackReceived' = [ackReceived EXCEPT ![s] = Append(@, FALSE)]
    /\ task' = SendWithTimeoutFrames(s, TxCount(s) + 1)
    /\ UNCHANGED <<config, data, packet, cbCount, inflight, recv>>

\* the timer of attempt a fires: if (!ackReceived) sendWithTimeout()
TimeoutFire(s, a) ==
    /\ task = <<>>
    /\ <<s, a>> \in timers
    /\ ~ackReceived[s][a] => TxCount(s) < MaxAttempts
    /\ timers' = timers \ {<<s, a>>}
    /\ IF ~ackReceived[s][a]
       THEN /\ tx' = [tx EXCEPT ![s] = Append(@, NewTx)]
            /\ ackReceived' = [ackReceived EXCEPT ![s] = Append(@, FALSE)]
            /\ task' = SendWithTimeoutFrames(s, TxCount(s) + 1)
       ELSE UNCHANGED <<tx, ackReceived, task>>
    /\ UNCHANGED <<config, data, packet, cbCount, inflight, recv>>

Next ==
    \/ \E s \in Sends, d \in Payloads : Send(s, d)
    \/ SocketSend
    \/ \E s \in Sends, k \in 1..MaxAttempts : DeliverDelayed(s, k)
    \/ Handle
    \/ SetTimeout
    \/ \E s \in Sends, a \in 1..MaxAttempts : TimeoutFire(s, a)

Spec == Init /\ [][Next]_vars

\* a step of the program: of the running task, or a timer that fires
Step ==
    \/ SocketSend
    \/ Handle
    \/ SetTimeout
    \/ \E s \in Sends, k \in 1..MaxAttempts : DeliverDelayed(s, k)
    \/ \E s \in Sends, a \in 1..MaxAttempts : TimeoutFire(s, a)

\* Node runs every task to its end and fires the timers that are set: the
\* program does not stop while a step of it is possible
Fairness == WF_vars(Step)

FairSpec == Init /\ [][Next]_vars /\ Fairness

\* ------------------------------------------------------------------------
\* a layer on a socket that answers
\* ------------------------------------------------------------------------

\* the factories take the socket as their argument: here it is any object
\* whose send drops or delays the packet like createVirtualSocket and calls
\* the callback with a value of its choice
InitLayer ==
    /\ variant \in Variants
    /\ virtualSocket = "any"
    /\ dropProbability \in Probs
    /\ delayProbability \in Probs
    /\ errorProbability = 0
    /\ Idle
    /\ rcv = NoReceive
    /\ rcvResult = "none"
    /\ crcData = <<>>
    /\ crcResult = <<>>

SpecLayer == InitLayer /\ [][Next]_vars

\* ------------------------------------------------------------------------
\* two calls of send on one layer
\* ------------------------------------------------------------------------

\* the producer calls send twice on the same layer, the second time while
\* the first send may still have a delayed packet or a timer pending; the
\* socket answers every packet (a dropped packet brings no response)
TwoSends == {1, 2}

\* the payload of each of the two calls: "A" and "Hi"
PayloadOf(s) == IF s = 1 THEN <<65>> ELSE <<72, 105>>

InitTwo ==
    /\ variant \in Variants
    /\ virtualSocket = "any"
    /\ dropProbability = 0
    /\ delayProbability \in Probs
    /\ errorProbability = 0
    /\ data = [s \in TwoSends |-> <<>>]
    /\ packet = [s \in TwoSends |-> <<>>]
    /\ cbCount = [s \in TwoSends |-> 0]
    /\ tx = [s \in TwoSends |-> <<>>]
    /\ ackReceived = [s \in TwoSends |-> <<>>]
    /\ timers = {}
    /\ inflight = {}
    /\ task = <<>>
    /\ rcv = NoReceive
    /\ rcvResult = "none"
    /\ crcData = <<>>
    /\ crcResult = <<>>

NextTwo ==
    \/ \E s \in TwoSends : Send(s, PayloadOf(s))
    \/ SocketSend
    \/ \E s \in TwoSends, k \in 1..MaxAttempts : DeliverDelayed(s, k)
    \/ Handle
    \/ SetTimeout
    \/ \E s \in TwoSends, a \in 1..MaxAttempts : TimeoutFire(s, a)

SpecTwo == InitTwo /\ [][NextTwo]_vars

\* ------------------------------------------------------------------------
\* receive as a function of its argument
\* ------------------------------------------------------------------------

\* the payloads of the envelopes given to receive: "A", "Hi" and ""
RecvPayloads == Payloads \cup {<<>>}

\* the crc fields of the envelopes given to receive
CrcValues == 0..255

\* texts that are no record of a string data and an integer crc:
\*   xyz   (empty)   null   5   "A"   []   {}
\*   {"data":"A"}   {"crc":192}   {"data":"A","crc":"192"}
\*   {"data":"A","crc":1.5}   {"data":"A","crc":null}   {"data":"A","crc":192
\*   {"data":65,"crc":192}   {"data":"A","crc":192.0}   {"data":"A","crc":19.2e1}
Texts ==
    { <<120, 121, 122>>, <<>>, <<110, 117, 108, 108>>, <<53>>, <<34, 65, 34>>,
      <<91, 93>>, <<123, 125>>,
      <<123, 34, 100, 97, 116, 97, 34, 58, 34, 65, 34, 125>>,
      <<123, 34, 99, 114, 99, 34, 58, 49, 57, 50, 125>>,
      <<123, 34, 100, 97, 116, 97, 34, 58, 34, 65, 34, 44, 34, 99, 114, 99, 34, 58,
        34, 49, 57, 50, 34, 125>>,
      <<123, 34, 100, 97, 116, 97, 34, 58, 34, 65, 34, 44, 34, 99, 114, 99, 34, 58,
        49, 46, 53, 125>>,
      <<123, 34, 100, 97, 116, 97, 34, 58, 34, 65, 34, 44, 34, 99, 114, 99, 34, 58,
        110, 117, 108, 108, 125>>,
      <<123, 34, 100, 97, 116, 97, 34, 58, 34, 65, 34, 44, 34, 99, 114, 99, 34, 58,
        49, 57, 50>>,
      <<123, 34, 100, 97, 116, 97, 34, 58, 54, 53, 44, 34, 99, 114, 99, 34, 58,
        49, 57, 50, 125>>,
      <<123, 34, 100, 97, 116, 97, 34, 58, 34, 65, 34, 44, 34, 99, 114, 99, 34, 58,
        49, 57, 50, 46, 48, 125>>,
      <<123, 34, 100, 97, 116, 97, 34, 58, 34, 65, 34, 44, 34, 99, 114, 99, 34, 58,
        49, 57, 46, 50, 101, 49, 125>> }

\* the arguments of receive: the envelopes JSON.stringify({ data, crc })
\* of a payload and a crc field, right or wrong; the packets of the payloads
\* with one bit flipped by the socket; and the texts above
RecvInputs ==
    {[kind |-> "envelope", data |-> d, crc |-> c, packet |-> Stringify(d, c)] :
        d \in RecvPayloads, c \in CrcValues}
    \cup {[kind |-> "text", data |-> <<>>, crc |-> 0, packet |-> p] :
        p \in Texts \cup UNION {CorruptedPackets[q] : q \in Packets}}

InitRecv ==
    /\ variant \in Variants
    /\ virtualSocket = "createVirtualSocket"
    /\ dropProbability = 0
    /\ delayProbability = 0
    /\ errorProbability = 0
    /\ Idle
    /\ rcv \in RecvInputs
    /\ rcvResult = "pending"
    /\ crcData = <<>>
    /\ crcResult = <<>>

\* receive(packet) of the layer: what it returns ("ACK", "NAK", "null") or
\* throws ("SyntaxError", "TypeError")
receive(p) == receiveOf(variant, Checked(p))

\* the consumer calls receive(rcv.packet)
Receive ==
    /\ rcvResult = "pending"
    /\ rcvResult' = receive(rcv.packet)
    /\ UNCHANGED <<config, data, packet, cbCount, tx, ackReceived, timers, inflight,
                   task, rcv, crcData, crcResult>>

NextRecv == Receive

SpecRecv == InitRecv /\ [][NextRecv]_vars

\* ------------------------------------------------------------------------
\* generateCRC8 as a function of its argument
\* ------------------------------------------------------------------------

\* the longest argument of generateCRC8, in characters
MaxCrcLen == 4

\* the characters of the arguments: "A" (one byte), U+00FF (two bytes, C3 BF)
\* and the euro sign U+20AC (three bytes, E2 82 AC)
CrcChars == {65, 255, 8364}

\* the check string "123456789"
CheckString == <<49, 50, 51, 52, 53, 54, 55, 56, 57>>

\* the arguments of generateCRC8: the strings of at most MaxCrcLen of the
\* characters, and the check string
CrcInputs ==
    UNION {[1..n -> CrcChars] : n \in 0..MaxCrcLen} \cup {CheckString}

InitCrc ==
    /\ variant = "ACKNAK"
    /\ virtualSocket = "createVirtualSocket"
    /\ dropProbability = 0
    /\ delayProbability = 0
    /\ errorProbability = 0
    /\ Idle
    /\ rcv = NoReceive
    /\ rcvResult = "none"
    /\ crcData \in CrcInputs
    /\ crcResult = <<>>

\* a call generateCRC8(crcData)
GenerateCRC8 ==
    /\ crcResult = <<>>
    /\ crcResult' = <<generateCRC8(crcData)>>
    /\ UNCHANGED <<config, data, packet, cbCount, tx, ackReceived, timers, inflight,
                   task, rcv, rcvResult, crcData>>

NextCrc == GenerateCRC8

SpecCrc == InitCrc /\ [][NextCrc]_vars

\* ------------------------------------------------------------------------
\* Properties
\* ------------------------------------------------------------------------

\* no task runs and no timer is set: nothing more happens unless the
\* producer calls send
Quiescent == task = <<>> /\ inflight = {} /\ timers = {}

\* the socket never drops, delays or corrupts
CleanChannel == dropProbability = 0 /\ delayProbability = 0 /\ errorProbability = 0

\* transmission k of send s was handed to its callback unchanged
DeliveredClean(s, k) ==
    /\ tx[s][k].outcome \in {"direct", "delayed"}
    /\ tx[s][k].delivered = 1
    /\ ~tx[s][k].corrupted

\* the JavaScript value receive returns (no value when it throws)
ReturnValue(r) ==
    IF r = "ACK" THEN ACK
    ELSE IF r = "NAK" THEN NAK
    ELSE IF r = "null" THEN Null
    ELSE Undefined

\* C1: on a clean channel, one send of the ACK/NAK layer has called the
\* callback exactly once when the call of send returns (nothing is delayed
\* on a clean channel, so nothing happens after it).
C1_CleanSendCompletesOnce ==
    \A s \in Sends :
        (variant = "ACKNAK" /\ CleanChannel /\ Started(s) /\ task = <<>>)
            => cbCount[s] = 1

\* C2: every value handleResponse is called with is the signal (ACK, NAK or
\* null) that receive returns for the delivered envelope, and never the
\* envelope itself.
C2_HandlerGetsSignal ==
    (task # <<>> /\ Head(task).op = "handle")
        => /\ Head(task).resp \in {ACK, NAK, Null}
           /\ Head(task).resp # Str(Head(task).env)
           /\ Head(task).resp = ReturnValue(receive(Head(task).env))

\* C3: one send of the ACK layer calls the callback at most once, whatever
\* the socket drops or delays and whenever the timers fire.
C3_AckCompletesAtMostOnce ==
    variant = "ACK" => \A s \in Sends : cbCount[s] <= 1

\* C4: of the two events of one attempt of the ACK layer, the delivery to
\* its handler and its timeout, at most one acts: no attempt has both
\* completed the send (ackReceived) and retransmitted (a next attempt exists
\* only because the timer of the attempt before it retransmitted).
C4_SingleWinner ==
    variant = "ACK" =>
        \A s \in Sends : \A a \in 1..TxCount(s) :
            ~(ackReceived[s][a] /\ TxCount(s) > a)

\* C5: when the socket dropped the first transmission of a send of the ACK
\* layer and handed every later one unchanged and at once to the handler,
\* then, once the task of the second transmission has ended, the callback
\* has been called exactly once and there are exactly two transmissions.
C5_TimeoutRetry ==
    \A s \in Sends :
        ( /\ variant = "ACK"
          /\ task = <<>>
          /\ TxCount(s) >= 2
          /\ tx[s][1].outcome = "dropped"
          /\ \A k \in 2..TxCount(s) : tx[s][k].outcome = "direct" /\ DeliveredClean(s, k) )
            => cbCount[s] = 1 /\ TxCount(s) = 2

\* C6: when the socket corrupted the first delivery of a send of the ACK/NAK
\* layer and delivered every later transmission unchanged, then, once
\* nothing more can happen, the callback has been called exactly once and
\* there are exactly two transmissions.
C6_CorruptionRecovery ==
    \A s \in Sends :
        ( /\ variant = "ACKNAK"
          /\ Quiescent
          /\ Started(s)
          /\ tx[s][1].delivered = 1 /\ tx[s][1].corrupted
          /\ \A k \in 2..TxCount(s) : DeliveredClean(s, k) )
            => cbCount[s] = 1 /\ TxCount(s) = 2

\* C7: in every layer, a transmission the socket dropped while the send was
\* not complete is followed by another transmission: the layer never comes
\* to rest with a dropped last transmission and the callback not called.
C7_DropsRecovered ==
    \A s \in Sends : \A k \in 1..TxCount(s) :
        (Quiescent /\ tx[s][k].outcome = "dropped" /\ cbCount[s] = 0)
            => TxCount(s) > k

\* the signal of the table for a layer and a checksum that matches or not
SignalTable(v, match) ==
    IF v = "ACKNAK" THEN (IF match THEN "ACK" ELSE "NAK")
    ELSE IF v = "ACK" THEN (IF match THEN "ACK" ELSE "null")
    ELSE (IF match THEN "null" ELSE "NAK")

\* C8: for the envelope of a payload and a crc field, receive returns ACK
\* (ACK/NAK and ACK layers) or null (NAK layer) when the crc field is the
\* CRC-8 of the payload, and NAK (ACK/NAK and NAK layers) or null (ACK
\* layer) when it is not.
C8_SignalTable ==
    (rcv.kind = "envelope" /\ rcvResult # "pending")
        => rcvResult = SignalTable(variant, rcv.crc = generateCRC8(rcv.data))

\* C8 witness: the NAK layer has answered NAK to an envelope with a wrong
\* crc field.
C8_Witness ==
    /\ variant = "NAK"
    /\ rcv.kind = "envelope"
    /\ rcv.crc # generateCRC8(rcv.data)
    /\ rcvResult = "NAK"

\* the text is no record with a data field and an integer crc field: it does
\* not parse, or it has no data, or no crc, or a crc that is no integer
Malformed(text) ==
    LET p == JsonParse(text) IN
    \/ ~p.ok
    \/ p.v.t # "object"
    \/ p.data.t = "undefined"
    \/ p.crc.t = "undefined"
    \/ ~(p.crc.t = "number" /\ p.crc.e >= 0)

\* C9: receive of a text that is no record with a data field and an integer
\* crc field throws, and returns no signal.
C9_MalformedThrows ==
    (rcvResult # "pending" /\ rcv.kind = "text" /\ Malformed(rcv.packet))
        => rcvResult \in {"SyntaxError", "TypeError"}

\* the callback of a call of the socket's send has been called at most once,
\* not at all when the call dropped the packet, once when it delivered at
\* once, and once the timer of a delayed packet has fired
DeliveredOnce ==
    \A s \in Sends : \A k \in 1..TxCount(s) :
        /\ tx[s][k].delivered <= 1
        /\ tx[s][k].outcome \in {"called", "dropped"} => tx[s][k].delivered = 0
        /\ tx[s][k].outcome = "direct" => tx[s][k].delivered = 1
        /\ tx[s][k].outcome = "delayed" =>
               ((tx[s][k].delivered = 1) <=> (<<s, k>> \notin inflight))

\* C10: the callback of every call of the socket's send is called exactly
\* once if the call does not drop the packet (at once, or eventually when
\* the packet is delayed), never if it drops it, and never twice.
C10_ChannelDeliversOnce ==
    /\ []DeliveredOnce
    /\ \A s \in Sends, k \in 1..MaxAttempts :
           (<<s, k>> \in inflight)
               ~> (<<s, k>> \notin inflight /\ k <= TxCount(s) /\ tx[s][k].delivered = 1)

\* C10 witness: a delayed packet has been delivered.
C10_Witness ==
    \E s \in Sends : \E k \in 1..TxCount(s) :
        tx[s][k].outcome = "delayed" /\ tx[s][k].delivered = 1

\* the bytes x and y differ in exactly one bit
OneBitApart(x, y) == BitXor(x, y) \in {OneShl(bitIndex) : bitIndex \in 0..7}

\* the byte sequences have the same length and differ in exactly one bit of
\* exactly one byte
SingleBitDifference(sent, got) ==
    /\ Len(got) = Len(sent)
    /\ \E j \in 1..Len(sent) :
           /\ OneBitApart(sent[j], got[j])
           /\ \A i \in 1..Len(sent) : i # j => got[i] = sent[i]

\* C11: the bytes of the value the socket hands to the callback are, when
\* the socket corrupted the packet, as many as the bytes of the packet sent
\* and differ from them in exactly one bit of one byte; when it did not
\* corrupt, they are the bytes sent.
C11_SingleBitCorruption ==
    (task # <<>> /\ Head(task).op = "handle")
        => LET sent == Utf8Encode(packet[Head(task).s])
               got == Utf8Encode(Head(task).env)
           IN  IF tx[Head(task).s][Head(task).a].corrupted
               THEN SingleBitDifference(sent, got)
               ELSE got = sent

\* C12: generateCRC8 of the nine characters "123456789" is 244 (0xF4).
C12_KnownVector ==
    (crcData = CheckString /\ crcResult # <<>>) => crcResult = <<244>>

\* C12 witness: generateCRC8("123456789") has returned.
C12_Witness == crcData = CheckString /\ crcResult # <<>>

\* the bytes with bit bitIndex of byte j flipped
FlipBit(bytes, j, bitIndex) ==
    [k \in 1..Len(bytes) |->
        IF k = j THEN BitXor(bytes[k], OneShl(bitIndex)) ELSE bytes[k]]

\* the bytes are the UTF-8 encoding of a string
IsUtf8(bytes) == Utf8Encode(Utf8Decode(bytes)) = bytes

\* C13: for every payload and every bit of its bytes, the payload with that
\* bit flipped has another CRC-8 than the payload, and verifyCRC8 of the
\* flipped payload (where it is a string) and the CRC-8 of the payload is
\* false.
C13_SingleBitSensitivity ==
    crcResult # <<>> =>
        LET bytes == Utf8Encode(crcData) IN
        \A j \in 1..Len(bytes), bitIndex \in 0..7 :
            LET flipped == FlipBit(bytes, j, bitIndex) IN
            /\ generateCRC8OfBuffer(flipped) # crcResult[1]
            /\ IsUtf8(flipped) => ~verifyCRC8(Utf8Decode(flipped), crcResult[1])

\* C13 witness: the CRC-8 of a payload of four bytes or more, some of them
\* of a character of several bytes, has been computed.
C13_Witness ==
    /\ crcResult # <<>>
    /\ Len(Utf8Encode(crcData)) >= 4
    /\ Len(Utf8Encode(crcData)) > Len(crcData)

\* the timers and the delayed packets of send s
PendingOf(s) == <<{t \in timers : t[1] = s}, {t \in inflight : t[1] = s}>>

\* C14: a call of the handler of one send leaves the other send as it is:
\* its callback is not called, it transmits nothing, its flags, timers and
\* packet do not change, and what the handler transmits is of its own send.
C14_IndependentSends ==
    [][(task # <<>> /\ Head(task).op = "handle") =>
          /\ \A s \in TwoSends \ {Head(task).s} :
                /\ cbCount'[s] = cbCount[s]
                /\ tx'[s] = tx[s]
                /\ ackReceived'[s] = ackReceived[s]
                /\ packet'[s] = packet[s]
                /\ PendingOf(s)' = PendingOf(s)
          /\ \A i \in 1..Len(task') : task'[i].s = Head(task).s]_vars

\* C14 witness: the handler of one send is called with ACK or NAK while the
\* other send has been made, is not complete and has a delayed packet or a
\* timer pending.
C14_Witness ==
    /\ task # <<>>
    /\ Head(task).op = "handle"
    /\ Head(task).resp \in {ACK, NAK}
    /\ \E s \in TwoSends \ {Head(task).s} :
          /\ Started(s)
          /\ cbCount[s] = 0
          /\ PendingOf(s) # <<{}, {}>>

\* C15: once the callback of a send of the ACK layer has been called, no
\* step transmits the packet of that send again.
C15_AckStopsAfterCompletion ==
    [][variant = "ACK" =>
          \A s \in Sends : cbCount[s] >= 1 => TxCount(s)' = TxCount(s)]_vars

\* C16: at most one retransmission timer is pending for one send.
C16_TimersDoNotStack ==
    \A s \in Sends : Cardinality({t \in timers : t[1] = s}) <= 1

\* C16 witness: the ACK layer has made its last attempt but one or a later
\* one, the task of that attempt has ended and its timer is pending.
C16_Witness ==
    /\ variant = "ACK"
    /\ task = <<>>
    /\ \E s \in Sends :
          /\ TxCount(s) >= 2
          /\ <<s, TxCount(s)>> \in timers

\* a send of the ACK/NAK layer or of the NAK layer has called the callback
\* at most once
CompletedAtMostOnce ==
    variant \in {"ACKNAK", "NAK"} => \A s \in Sends : cbCount[s] <= 1

\* a step of these layers transmits nothing for a send that is complete
NoTransmissionAfterCompletion ==
    variant \in {"ACKNAK", "NAK"} =>
        \A s \in Sends : cbCount[s] >= 1 => TxCount(s)' = TxCount(s)

\* C17: one send of the ACK/NAK layer or of the NAK layer calls the callback
\* at most once, and once it has called it no step transmits the packet of
\* that send again.
C17_NakLayersCompleteOnce ==
    []CompletedAtMostOnce /\ [][NoTransmissionAfterCompletion]_vars

\* C17 witness: a send of the ACK/NAK layer is complete after a
\* retransmission and nothing is pending.
C17_Witness ==
    /\ variant = "ACKNAK"
    /\ Quiescent
    /\ \E s \in Sends : cbCount[s] = 1 /\ TxCount(s) >= 2

\* a call of the handler of the NAK layer: with a value other than NAK it
\* calls the callback once and transmits nothing; with NAK it gives the
\* packet of its send to the socket once more and does not call the callback
NakHandlerStep ==
    (variant = "NAK" /\ task # <<>> /\ Head(task).op = "handle") =>
        LET s == Head(task).s IN
        IF Head(task).resp # NAK
        THEN /\ cbCount'[s] = cbCount[s] + 1
             /\ Len(tx'[s]) = TxCount(s)
             /\ task' = Tail(task)
        ELSE /\ cbCount'[s] = cbCount[s]
             /\ Len(tx'[s]) = TxCount(s) + 1
             /\ packet'[s] = packet[s]
             /\ task' = <<SocketSendFrame(s, TxCount(s) + 1)>> \o Tail(task)

\* C18: every call of the handler of the NAK layer with a value other than
\* NAK calls the callback and transmits nothing; every call with NAK
\* transmits the same packet exactly once more and does not call the
\* callback.
C18_NakHandler == [][NakHandlerStep]_vars

\* C18 witness: a send of the NAK layer has retransmitted after a NAK and
\* then completed.
C18_Witness ==
    /\ variant = "NAK"
    /\ task = <<>>
    /\ \E s \in Sends : TxCount(s) >= 2 /\ cbCount[s] = 1

\* a step that calls the callback of a send of the ACK/NAK or the ACK layer
\* is a call of the send's handler with ACK, for a packet that the socket
\* delivered unchanged and for which receive answers ACK
CompletionIsVerified ==
    variant \in {"ACKNAK", "ACK"} =>
        \A s \in Sends :
            cbCount'[s] # cbCount[s] =>
                /\ task # <<>>
                /\ Head(task).op = "handle"
                /\ Head(task).s = s
                /\ Head(task).resp = ACK
                /\ ~tx[s][Head(task).a].corrupted
                /\ Head(task).env = packet[s]
                /\ receive(Head(task).env) = "ACK"

RECURSIVE RefShift(_, _)
\* the reference algorithm, eight times: if the top bit of the 8-bit
\* accumulator is set, shift left, XOR with 0x07 and mask to 8 bits, else
\* shift left and mask
RefShift(acc, i) ==
    IF i >= 8 THEN acc
    ELSE IF acc >= 128
         THEN RefShift(BitXor((acc * 2) % 256, 7), i + 1)
         ELSE RefShift((acc * 2) % 256, i + 1)

RECURSIVE RefBytes(_, _)
\* the reference algorithm over the bytes: XOR the byte into the accumulator
RefBytes(acc, bytes) ==
    IF bytes = <<>> THEN acc
    ELSE RefBytes(RefShift(BitXor(acc, Head(bytes)), 0), Tail(bytes))

\* the reference CRC-8 (polynomial 0x07, initial value 0, no reflection, no
\* final XOR) of the bytes
RefCrc8(bytes) == RefBytes(0, bytes)

\* C20: generateCRC8, which masks only at the end, returns what the
\* reference algorithm, which masks after every shift, returns for the bytes
\* of the payload, and the result is in 0..255.
C20_MaskingEquivalence ==
    crcResult # <<>> =>
        /\ crcResult[1] = RefCrc8(Utf8Encode(crcData))
        /\ crcResult[1] \in 0..255

\* C20 witness: generateCRC8 has returned for a payload whose unmasked
\* accumulator has wrapped around 32 bits (it is negative).
C20_Witness ==
    /\ crcResult # <<>>
    /\ CrcBytes(0, Utf8Encode(crcData)) < 0

====
